---------------------------- MODULE Spec2Model ----------------------------
(***************************************************************************)
(* Day-assembly engine of the NevadoDelRuiz conversion scripts:            *)
(*   src/suds_conversion/20_twominutemseed2suds.py  (batch: process)       *)
(*   src/02_mseed2sds.py                            (streaming main loop)  *)
(*                                                                         *)
(* Time is counted in ticks of 10 ms from 2012-04-01T00:00:00 UTC, so that *)
(* the sample periods of 100 Hz, 50 Hz and 25 Hz are 1, 2 and 4 ticks.     *)
(* Sampling rates are integers in units of 1e-7 Hz, the unit in which the  *)
(* tolerance 1e-6 Hz of round_sampling_rates is the integer 10.            *)
(* A trace is a record                                                     *)
(*   [sta, cha, net, start, sr, data]                                      *)
(* whose data is the sequence of its samples; a sample read from a file is *)
(* the pair <<src, i>> (i-th sample of source trace src, src >= 1), so     *)
(* that a sample can be followed through trimming, merging and writing.    *)
(* All samples of the input therefore differ in value.                     *)
(***************************************************************************)
EXTENDS Integers, Sequences, FiniteSets, TLC

VARIABLES
    pc,                                 \* control position of the script
    tr, cur, parts,                     \* split_trace_at_midnights
    st, st2, outb, outl, outb2, outl2,  \* fix_seedid: a batch, the same batch
                                        \* reordered, and the two results of
                                        \* each of the two fix_seedid
    bucket, resb, resl,                 \* the fragments of one bucket in order
                                        \* of arrival, and what process and
                                        \* append_and_merge make of them
    files, fi, sds,                     \* the input files in sorted order, the
                                        \* place of the next one, the archive:
                                        \* path key -> the stream written there
    bins, wi, read_ok, wrote,           \* process: bins, the place of the next
                                        \* bin in sorted(bins.items()), counters
    daydir, dayst, lastday, dayetime    \* 02_mseed2sds.py: the globals of its loop

splitVars == <<tr, cur, parts>>
normVars == <<st, st2, outb, outl, outb2, outl2>>
mergeVars == <<bucket, resb, resl>>
runVars == <<files, fi, sds>>
batchVars == <<bins, wi, read_ok, wrote>>
streamVars == <<daydir, dayst, lastday, dayetime>>
pipeVars == <<runVars, batchVars, streamVars>>
vars == <<pc, splitVars, normVars, mergeVars, pipeVars>>

-----------------------------------------------------------------------------
(* Bounds of the model *)

MaxNpts == 4
MaxLead == 5
MaxParts == 4
MaxBatch == 3
MaxOff == 4
MaxFiles == 4
MaxIoErrors == 1

-----------------------------------------------------------------------------
(* Time and sampling rate *)

\* day_end = day_start + 86400 (seconds), in ticks of 10 ms
Day == 86400 * 100

\* UTCDateTime(st.year, st.month, st.day): the midnight at or before t
DayStart(t) == (t \div Day) * Day

\* one Hz in rate units of 1e-7 Hz
RateScale == 10 * 1000 * 1000

SR100 == 100 * RateScale
SR50 == 50 * RateScale
SR25 == 25 * RateScale
\* 99.9997 Hz, and a rate within 1e-6 Hz of 100 Hz
SR99_9997 == 999997 * 1000
SR100Near == SR100 - 5

\* Python's round() of a sampling rate, in rate units (no rate of the model
\* lies exactly half way between two integers)
RoundRate(sr) == ((sr + RateScale \div 2) \div RateScale) * RateScale

\* stats.delta in ticks; a jitter of a few 1e-4 Hz moves no sample of a
\* trace of at most a few samples by a tick, so the period of the nearest
\* integer rate is used for the sample times
Period(sr) == (100 * RateScale) \div RoundRate(sr)

\* compatibility.round_away(n / d), d > 0: nearest integer, halves away from 0
RoundAway(n, d) ==
    IF n >= 0 THEN (2 * n + d) \div (2 * d)
    ELSE 0 - ((2 * (0 - n) + d) \div (2 * d))

-----------------------------------------------------------------------------
(* Traces *)

Npts(t) == Len(t.data)

\* stats.endtime = starttime + (npts - 1) * delta (starttime when npts = 0)
EndTime(t) == IF Npts(t) = 0 THEN t.start ELSE t.start + (Npts(t) - 1) * Period(t.sr)

\* the samples read from the source trace src
SourceData(src, n) == [i \in 1..n |-> <<src, i>>]

MkTrace(src, sta, cha, start, sr, n) ==
    [sta |-> sta, cha |-> cha, net |-> "", start |-> start, sr |-> sr,
     data |-> SourceData(src, n)]

\* Trace._ltrim(starttime, pad=False, nearest_sample=True)
Ltrim(t, starttime) ==
    LET d == RoundAway(starttime - t.start, Period(t.sr))
    IN  IF d <= 0 THEN t
        ELSE [t EXCEPT !.start = t.start + d * Period(t.sr),
                       !.data = SubSeq(t.data, d + 1, Len(t.data))]

\* Trace._rtrim(endtime, pad=False, nearest_sample=True)
Rtrim(t, endtime) ==
    LET d == RoundAway(endtime - t.start, Period(t.sr)) - Npts(t) + 1
    IN  IF d >= 0 \/ Npts(t) = 0 THEN t
        ELSE IF endtime < t.start
             THEN [t EXCEPT !.start = EndTime(t) + d * Period(t.sr), !.data = <<>>]
             ELSE LET total == IF endtime = t.start THEN 1 ELSE Npts(t) + d
                  IN  [t EXCEPT !.data = SubSeq(t.data, 1, total)]

\* Trace.trim(starttime=..., endtime=..., pad=False)
TrimBoth(t, starttime, endtime) == Rtrim(Ltrim(t, starttime), endtime)

\* the time of the i-th sample of a trace
SampleTime(t, i) == t.start + (i - 1) * Period(t.sr)

-----------------------------------------------------------------------------
(* split_trace_at_midnights, one iteration of its while loop per step *)

\* left = cur.copy().trim(starttime=st, endtime=day_end, pad=False)
LeftPiece(c) == TrimBoth(c, c.start, DayStart(c.start) + Day)

\* cur = cur.copy().trim(starttime=day_end, endtime=et, pad=False)
Remainder(c) == TrimBoth(c, DayStart(c.start) + Day, EndTime(c))

\* split_trace_at_midnights as a function: its pieces, or hung when the
\* remainder is the trace it was cut from and the loop cannot end
RECURSIVE SplitFrom(_, _)
SplitFrom(c, ps) ==
    IF EndTime(c) <= DayStart(c.start) + Day
    THEN [hung |-> FALSE, parts |-> Append(ps, c)]
    ELSE IF Remainder(c) = c
         THEN [hung |-> TRUE, parts |-> ps]
         ELSE SplitFrom(Remainder(c), Append(ps, LeftPiece(c)))

split_trace_at_midnights(t) == SplitFrom(t, <<>>)

Rates == {SR100, SR50, SR25}

SplitInputs ==
    { MkTrace(1, <<"P", "I", "R">>, <<"E", "H", "Z">>, s, r, n) :
        s \in (Day - MaxLead)..(Day + 1), r \in Rates, n \in 1..MaxNpts }

SplitIdle == tr = <<>> /\ cur = <<>> /\ parts = <<>>
NormIdle ==
    /\ st = <<>> /\ st2 = <<>>
    /\ outb = <<>> /\ outl = <<>> /\ outb2 = <<>> /\ outl2 = <<>>

MergeIdle == bucket = <<>> /\ resb = <<>> /\ resl = <<>>
RunIdle == files = <<>> /\ fi = 0 /\ sds = <<>>
BatchIdle == bins = <<>> /\ wi = 0 /\ read_ok = 0 /\ wrote = 0
StreamIdle == daydir = 0 /\ dayst = <<>> /\ lastday = 0 /\ dayetime = 0
PipeIdle == RunIdle /\ BatchIdle /\ StreamIdle

InitSplit ==
    /\ NormIdle /\ MergeIdle /\ PipeIdle
    /\ tr \in SplitInputs
    /\ cur = tr
    /\ parts = <<>>
    /\ pc = "split"

\* et <= day_end: the last piece
SplitLast ==
    /\ pc = "split"
    /\ EndTime(cur) <= DayStart(cur.start) + Day
    /\ parts' = Append(parts, cur)
    /\ pc' = "split_done"
    /\ UNCHANGED <<tr, cur, normVars, mergeVars, pipeVars>>

\* one cut at day_end; the loop runs on with the remainder
SplitCut ==
    /\ pc = "split"
    /\ EndTime(cur) > DayStart(cur.start) + Day
    /\ Len(parts) < MaxParts
    /\ parts' = Append(parts, LeftPiece(cur))
    /\ cur' = Remainder(cur)
    /\ UNCHANGED <<pc, tr, normVars, mergeVars, pipeVars>>

NextSplit == SplitLast \/ SplitCut

SpecSplit == InitSplit /\ [][NextSplit]_vars

-----------------------------------------------------------------------------
(* fix_seedid: station and channel codes are sequences of characters *)

IRIG == <<"I", "R", "I", "G">>
EHZ == <<"E", "H", "Z">>
EHN == <<"E", "H", "N">>
ZNE == {"Z", "N", "E"}

\* network = 'NR' (02_mseed2sds.py), --network default "NR" (process)
Network == "NR"

\* s[-1]
LastChar(s) == s[Len(s)]

\* s[0:3], s[:3]
Root3(s) == SubSeq(s, 1, IF Len(s) < 3 THEN Len(s) ELSE 3)

\* s.startswith(p); also fnmatch of s against the pattern p + '*'
StartsWith(s, p) == Len(s) >= Len(p) /\ SubSeq(s, 1, Len(p)) = p

\* len(tr.stats.channel) != 3 or tr.stats.channel[2] not in "ZNE", negated
WellFormed(cha) == Len(cha) = 3 /\ cha[3] \in ZNE

\* sum(s.startswith(root3) for s in stations) > 1, stations being the raw
\* station codes of the whole batch, sentinels included
MultiForRoot(batch, root3) ==
    Cardinality({ i \in DOMAIN batch : StartsWith(batch[i].sta, root3) }) > 1

\* the body of the for loop of fix_seedid (20_twominutemseed2suds.py) for
\* one trace that is not a sentinel
NormalizeTrace(t, batch) ==
    LET root3 == Root3(t.sta)
        multi == MultiForRoot(batch, root3)
        t1 == [t EXCEPT !.net = Network]
        t2 == IF LastChar(t1.sta) \in ZNE /\ multi
              THEN [t1 EXCEPT !.cha = <<"E", "H", LastChar(t1.sta)>>, !.sta = root3]
              ELSE IF ~WellFormed(t1.cha) THEN [t1 EXCEPT !.cha = EHZ] ELSE t1
    IN  IF Len(t2.sta) = 4
        THEN IF LastChar(t2.sta) = "L" /\ multi
             THEN [t2 EXCEPT !.cha = <<"E", "L", t2.cha[3]>>, !.sta = root3]
             ELSE IF LastChar(t2.sta) = "H" /\ multi
                  THEN [t2 EXCEPT !.sta = root3]
                  ELSE t2
        ELSE t2

RECURSIVE FixFrom(_, _, _)
FixFrom(batch, i, out) ==
    IF i > Len(batch) THEN out
    ELSE IF batch[i].sta = IRIG THEN FixFrom(batch, i + 1, out)
    ELSE FixFrom(batch, i + 1, Append(out, NormalizeTrace(batch[i], batch)))

\* fix_seedid of 20_twominutemseed2suds.py: a new Stream of the normalized
\* copies of the traces that are not sentinels
fix_seedid(batch) == FixFrom(batch, 1, <<>>)

\* len(st.select(station=root3 + '*')) > 1 on the stream as it is now: s is
\* the traces as mutated so far, live the positions not removed from it
SelectMulti(s, live, root3) ==
    Cardinality({ j \in live : StartsWith(s[j].sta, root3) }) > 1

\* the body of the for loop of fix_seedid (02_mseed2sds.py) for the trace at
\* position i, when it is not a sentinel
LegacyTrace(s, live, i) ==
    LET t1 == [s[i] EXCEPT !.net = Network]
        t2 == IF LastChar(t1.sta) \in ZNE /\ SelectMulti(s, live, Root3(t1.sta))
              THEN [t1 EXCEPT !.cha = <<"E", "H", LastChar(t1.sta)>>,
                              !.sta = Root3(t1.sta)]
              ELSE [t1 EXCEPT !.cha = EHZ]
    IN  IF Len(t2.sta) = 4
        THEN LET t3 == IF LastChar(t2.sta) = "L"
                          /\ SelectMulti(s, live, Root3(t2.sta))
                       THEN [t2 EXCEPT !.cha = <<"E", "L", t2.cha[3]>>,
                                       !.sta = Root3(t2.sta)]
                       ELSE t2
             IN  IF LastChar(t3.sta) = "H" /\ SelectMulti(s, live, Root3(t3.sta))
                 THEN [t3 EXCEPT !.sta = Root3(t3.sta)]
                 ELSE t3
        ELSE t2

\* the positions `for tr in st` visits after position i: Stream.__iter__
\* iterates over a copy of the list of traces, so a removal does not move it
NextVisitedShifted(i, removed) == IF removed THEN i + 2 ELSE i + 1
NextVisited(i, removed) == i + 1

RECURSIVE LegacyFrom(_, _, _)
LegacyFrom(s, live, i) ==
    IF i > Len(s) THEN [s |-> s, live |-> live]
    ELSE IF s[i].sta = IRIG
         THEN LegacyFrom(s, live \ {i}, NextVisited(i, TRUE))
         ELSE LegacyFrom([s EXCEPT ![i] = LegacyTrace(s, live, i)], live,
                         NextVisited(i, FALSE))

RECURSIVE Keep(_, _, _)
Keep(s, live, i) ==
    IF i > Len(s) THEN <<>>
    ELSE (IF i \in live THEN <<s[i]>> ELSE <<>>) \o Keep(s, live, i + 1)

\* fix_seedid of 02_mseed2sds.py: the stream, mutated in place
fix_seedid_legacy(batch) ==
    LET r == LegacyFrom(batch, DOMAIN batch, 1) IN Keep(r.s, r.live, 1)

\* the raw <<station, channel>> codes of the model's traces
RawCodes ==
    { <<IRIG, <<>>>>,
      <<<<"I", "R", "I", "Z">>, <<>>>>,
      <<<<"P", "I", "R", "1">>, EHN>>,
      <<<<"P", "I", "R", "1">>, <<>>>>,
      <<<<"P", "I", "R", "Z">>, EHN>>,
      <<<<"P", "I", "R", "N">>, <<>>>>,
      <<<<"P", "I", "R", "L">>, EHN>>,
      <<<<"P", "I", "R", "L">>, <<>>>>,
      <<<<"P", "I", "R", "H">>, <<>>>>,
      <<<<"B", "I", "S">>, EHN>> }

\* a raw trace of a batch: one sample, tagged with its place in the file
RawTrace(src, sta, cha) == MkTrace(src, sta, cha, 0, SR100, 1)

Batches ==
    UNION { { [i \in 1..n |-> RawTrace(i, c[i][1], c[i][2])] :
                c \in [1..n -> RawCodes] } : n \in 1..MaxBatch }

Reorderings(batch) ==
    { [i \in DOMAIN batch |-> batch[p[i]]] : p \in Permutations(DOMAIN batch) }

InitNorm ==
    /\ SplitIdle /\ MergeIdle /\ PipeIdle
    /\ st \in Batches
    /\ st2 \in Reorderings(st)
    /\ outb = <<>> /\ outl = <<>> /\ outb2 = <<>> /\ outl2 = <<>>
    /\ pc = "norm"

Normalize ==
    /\ pc = "norm"
    /\ outb' = fix_seedid(st)
    /\ outl' = fix_seedid_legacy(st)
    /\ outb2' = fix_seedid(st2)
    /\ outl2' = fix_seedid_legacy(st2)
    /\ pc' = "norm_done"
    /\ UNCHANGED <<st, st2, splitVars, mergeVars, pipeVars>>

NextNorm == Normalize

SpecNorm == InitNorm /\ [][NextNorm]_vars

-----------------------------------------------------------------------------
(* round_sampling_rates, Stream.merge as the two scripts call it *)

\* abs(sr - round(sr)) < 1e-6, in rate units of 1e-7 Hz
RateTol == 10

Abs(x) == IF x < 0 THEN 0 - x ELSE x

\* round_sampling_rates (20_twominutemseed2suds.py)
round_sampling_rates(s) ==
    [i \in DOMAIN s |->
        IF Abs(s[i].sr - RoundRate(s[i].sr)) < RateTol
        THEN [s[i] EXCEPT !.sr = RoundRate(s[i].sr)]
        ELSE s[i]]

\* tr.stats.sampling_rate = float(round(tr.stats.sampling_rate)) for tr in dayst
RoundAllRates(s) == [i \in DOMAIN s |-> [s[i] EXCEPT !.sr = RoundRate(s[i].sr)]]

\* merge(method=1) of process, merge(method=0, fill_value=0) of append_and_merge
MergeMethodLegacy == 0
\* process calling merge with the method of append_and_merge
MergeMethodDiscarding == MergeMethodLegacy
MergeMethodBatch == 1

\* the samples Stream.merge puts where it has none of its own: a masked
\* sample (no fill_value) or the fill_value 0
Masked == <<0, 1>>
Zero == <<0, 0>>
FillOf(method) == IF method = MergeMethodLegacy THEN Zero ELSE Masked

Chunk(n, v) == [i \in 1..n |-> v]

TraceId(t) == <<t.net, t.sta, t.cha>>

\* Stream._merge_checks: traces of one id with differing sampling rates
MergeChecksFail(s) ==
    \E i, j \in DOMAIN s : TraceId(s[i]) = TraceId(s[j]) /\ s[i].sr # s[j].sr

\* Trace.__add__(trace, method, fill_value, interpolation_samples=0)
AddTraces(self, trace, method) ==
    LET lt == IF self.start <= trace.start THEN self ELSE trace
        rt == IF self.start <= trace.start THEN trace ELSE self
        delta == RoundAway(rt.start - EndTime(lt), Period(self.sr)) - 1
        d == 0 - delta
        nl == Npts(lt)
        nr == Npts(rt)
        data ==
            IF delta < 0 /\ EndTime(lt) - EndTime(rt) < 0
            THEN \* overlap
                 IF SubSeq(lt.data, nl - d + 1, nl) = SubSeq(rt.data, 1, d)
                 THEN SubSeq(lt.data, 1, nl - d) \o rt.data
                 ELSE IF method = MergeMethodLegacy
                      THEN SubSeq(lt.data, 1, nl - d) \o Chunk(d, FillOf(method))
                               \o SubSeq(rt.data, d + 1, nr)
                      ELSE SubSeq(lt.data, 1, nl - d) \o rt.data
            ELSE IF delta < 0
            THEN \* contained trace
                 IF SubSeq(lt.data, nl - d + 1, nl - d + nr) = rt.data
                 THEN lt.data
                 ELSE IF method = MergeMethodLegacy
                      THEN SubSeq(lt.data, 1, nl - d) \o Chunk(nr, FillOf(method))
                               \o SubSeq(lt.data, nl - d + nr + 1, nl)
                      ELSE lt.data
            ELSE IF delta = 0
            THEN lt.data \o rt.data
            ELSE lt.data \o Chunk(delta, FillOf(method)) \o rt.data
    IN  [lt EXCEPT !.data = data]

\* a trace sorts before another of its id: starttime, then endtime
SortsBefore(a, b) ==
    a.start < b.start \/ (a.start = b.start /\ EndTime(a) < EndTime(b))

\* the stable sort of the traces of one id
RECURSIVE InsertSorted(_, _)
InsertSorted(sorted, t) ==
    IF sorted = <<>> THEN <<t>>
    ELSE IF SortsBefore(t, Head(sorted)) THEN <<t>> \o sorted
    ELSE <<Head(sorted)>> \o InsertSorted(Tail(sorted), t)

RECURSIVE SortTraces(_)
SortTraces(s) ==
    IF s = <<>> THEN <<>>
    ELSE InsertSorted(SortTraces(SubSeq(s, 1, Len(s) - 1)), s[Len(s)])

RECURSIVE FoldAdd(_, _, _)
FoldAdd(cur_trace, rest, method) ==
    IF rest = <<>> THEN cur_trace
    ELSE FoldAdd(AddTraces(cur_trace, Head(rest), method), Tail(rest), method)

\* the ids of a stream in order of first appearance
RECURSIVE IdsOf(_)
IdsOf(s) ==
    IF s = <<>> THEN <<>>
    ELSE LET front == IdsOf(SubSeq(s, 1, Len(s) - 1))
             id == TraceId(s[Len(s)])
         IN  IF \E k \in DOMAIN front : front[k] = id THEN front ELSE Append(front, id)

\* Stream.merge after its checks: empty traces are skipped, the traces of
\* each id are sorted and added up into one trace. (The order of the ids in
\* the merged stream is that of first appearance; no code depends on it.)
MergeTraces(s, method) ==
    LET nonempty == SelectSeq(s, LAMBDA t : Npts(t) > 0)
        ids == IdsOf(nonempty)
    IN  [k \in DOMAIN ids |->
            LET grp == SortTraces(SelectSeq(nonempty, LAMBDA t : TraceId(t) = ids[k]))
            IN  FoldAdd(Head(grp), Tail(grp), method)]

\* lines 163-168 of process: merge, and on an exception round the rates and
\* merge again; the second merge stands in no try, so its exception leaves
\* process
MergeBin(s) ==
    IF ~MergeChecksFail(s)
    THEN [status |-> "ok", traces |-> MergeTraces(s, MergeMethodBatch)]
    ELSE IF ~MergeChecksFail(round_sampling_rates(s))
         THEN [status |-> "ok",
               traces |-> MergeTraces(round_sampling_rates(s), MergeMethodBatch)]
         ELSE [status |-> "raised", traces |-> round_sampling_rates(s)]

\* append_and_merge (02_mseed2sds.py)
append_and_merge(day_st, s) ==
    LET all == day_st \o s
    IN  IF ~MergeChecksFail(all)
        THEN [status |-> "ok", traces |-> MergeTraces(all, MergeMethodLegacy)]
        ELSE IF ~MergeChecksFail(RoundAllRates(all))
             THEN [status |-> "ok",
                   traces |-> MergeTraces(RoundAllRates(all), MergeMethodLegacy)]
             ELSE [status |-> "raised", traces |-> RoundAllRates(all)]

\* noon of the first day
T0 == Day \div 2

MergeRates == {SR100, SR100Near, SR99_9997, SR50}

PIR == <<"P", "I", "R">>

\* two fragments of one bucket, the first to arrive first
Buckets ==
    { << [MkTrace(1, PIR, EHZ, T0, ra, na) EXCEPT !.net = Network],
         [MkTrace(2, PIR, EHZ, T0 + off, rb, nb) EXCEPT !.net = Network] >> :
        ra \in MergeRates, rb \in MergeRates, na \in 1..MaxNpts, nb \in 1..MaxNpts,
        off \in (0 - MaxOff)..(MaxOff + MaxNpts) }

InitMerge ==
    /\ SplitIdle /\ NormIdle /\ PipeIdle
    /\ bucket \in Buckets
    /\ resb = <<>> /\ resl = <<>>
    /\ pc = "merge"

\* process: round_sampling_rates(st) on the file as read (line 141), the
\* fragments binned in order, then the bin merged (lines 163-168)
MergeBatch ==
    /\ pc = "merge"
    /\ resb = <<>>
    /\ resb' = MergeBin(round_sampling_rates(bucket))
    /\ UNCHANGED <<pc, bucket, resl, splitVars, normVars, pipeVars>>

\* 02_mseed2sds.py: dayst is the first fragment, the second is added by
\* append_and_merge
MergeLegacy ==
    /\ pc = "merge"
    /\ resl = <<>>
    /\ resl' = append_and_merge(<<bucket[1]>>, <<bucket[2]>>)
    /\ UNCHANGED <<pc, bucket, resb, splitVars, normVars, pipeVars>>

NextMerge == MergeBatch \/ MergeLegacy

SpecMerge == InitMerge /\ [][NextMerge]_vars

-----------------------------------------------------------------------------
(* The input files of a run *)

BIS == <<"B", "I", "S">>

\* the i-th trace read from the k-th file
Src(k, i) == 2 * (k - 1) + i

ReadTrace(k, i, sta, start, sr, n) == MkTrace(Src(k, i), sta, EHZ, start, sr, n)

FileKinds == {"bad", "irig", "d0", "d0b", "x", "touch", "d1", "multi", "r50"}

\* what obspy.read returns for the k-th file, of each kind:
\*   bad    unreadable
\*   irig   the timing channel alone
\*   d0     PIR, 3 samples at 100 Hz, 80 ms before the first midnight
\*   d0b    PIR, 3 samples following d0
\*   x      PIR, 4 samples, the third on the midnight
\*   touch  PIR, 3 samples, the last on the midnight
\*   d1     PIR, 3 samples of the second day
\*   multi  PIR, 3 samples before the midnight, and BIS, 3 samples across it
\*   r50    PIR, 2 samples at 50 Hz before the midnight
TracesOf(kind, k) ==
    CASE kind = "bad" -> <<>>
      [] kind = "irig" -> <<ReadTrace(k, 1, IRIG, Day - 8, SR100, 3)>>
      [] kind = "d0" -> <<ReadTrace(k, 1, PIR, Day - 8, SR100, 3)>>
      [] kind = "d0b" -> <<ReadTrace(k, 1, PIR, Day - 5, SR100, 3)>>
      [] kind = "x" -> <<ReadTrace(k, 1, PIR, Day - 2, SR100, 4)>>
      [] kind = "touch" -> <<ReadTrace(k, 1, PIR, Day - 2, SR100, 3)>>
      [] kind = "d1" -> <<ReadTrace(k, 1, PIR, Day + 2, SR100, 3)>>
      [] kind = "multi" -> <<ReadTrace(k, 1, PIR, Day - 4, SR100, 3),
                             ReadTrace(k, 2, BIS, Day - 1, SR100, 3)>>
      [] kind = "r50" -> <<ReadTrace(k, 1, PIR, Day - 12, SR50, 2)>>

\* a file: whether obspy.read succeeds, its day directory, its traces
FileOf(kind, k, dir) == [ok |-> kind # "bad", dir |-> dir, traces |-> TracesOf(kind, k)]

\* the run of the files of the kinds c, the first b of them in the first day
\* directory
Run(c, b) == [k \in DOMAIN c |-> FileOf(c[k], k, IF k <= b THEN 1 ELSE 2)]

-----------------------------------------------------------------------------
(* process (20_twominutemseed2suds.py) *)

\* the characters of the model's codes in the order of their code points
Alphabet == <<"1", "B", "E", "G", "H", "I", "L", "N", "P", "R", "S", "Z">>
Rank(c) == CHOOSE i \in DOMAIN Alphabet : Alphabet[i] = c

\* a < b for two strings
RECURSIVE StrLess(_, _)
StrLess(a, b) ==
    IF b = <<>> THEN FALSE
    ELSE IF a = <<>> THEN TRUE
    ELSE IF Head(a) # Head(b) THEN Rank(Head(a)) < Rank(Head(b))
    ELSE StrLess(Tail(a), Tail(b))

\* (sta, cha, n) < (sta, cha, n) for two tuples of one network and location
TupleLess(a, b) ==
    \/ StrLess(a[1], b[1])
    \/ a[1] = b[1] /\ StrLess(a[2], b[2])
    \/ a[1] = b[1] /\ a[2] = b[2] /\ a[3] < b[3]

\* st.sort(keys=["network", "station", "location", "channel", "starttime"])
RECURSIVE InsertByKey(_, _)
InsertByKey(sorted, t) ==
    IF sorted = <<>> THEN <<t>>
    ELSE IF TupleLess(<<t.sta, t.cha, t.start>>,
                      <<Head(sorted).sta, Head(sorted).cha, Head(sorted).start>>)
         THEN <<t>> \o sorted
         ELSE <<Head(sorted)>> \o InsertByKey(Tail(sorted), t)

RECURSIVE SortStream(_)
SortStream(s) ==
    IF s = <<>> THEN <<>>
    ELSE InsertByKey(SortStream(SubSeq(s, 1, Len(s) - 1)), s[Len(s)])

\* y and j of a time: the days since 2012-04-01 stand for (year, julday)
DayIndex(t) == t \div Day

\* key = (net, sta, loc, cha, y, j); every location of the model is empty
KeyOf(seg) == <<seg.net, seg.sta, seg.cha, DayIndex(seg.start)>>

\* bins[key].append(seg)
BinAppend(b, seg) ==
    [k \in DOMAIN b \cup {KeyOf(seg)} |->
        IF k = KeyOf(seg)
        THEN (IF k \in DOMAIN b THEN Append(b[k], seg) ELSE <<seg>>)
        ELSE b[k]]

RECURSIVE BinSegs(_, _)
BinSegs(b, segs) ==
    IF segs = <<>> THEN b ELSE BinSegs(BinAppend(b, Head(segs)), Tail(segs))

\* for tr in st: for seg in split_trace_at_midnights(tr): bins[key].append(seg)
RECURSIVE BinStream(_, _)
BinStream(b, s) ==
    IF s = <<>> THEN b
    ELSE BinStream(BinSegs(b, split_trace_at_midnights(Head(s)).parts), Tail(s))

Hangs(s) == \E i \in DOMAIN s : split_trace_at_midnights(s[i]).hung

\* lines 140-143: the stream of a file as it reaches the loop over its traces
Prepared(f) == SortStream(round_sampling_rates(fix_seedid(f.traces)))

\* sorted(bins.items())
RECURSIVE SortedKeys(_)
SortedKeys(keys) ==
    IF keys = {} THEN <<>>
    ELSE LET least == CHOOSE k \in keys :
                        \A o \in keys \ {k} :
                            TupleLess(<<k[2], k[3], k[4]>>, <<o[2], o[3], o[4]>>)
         IN  <<least>> \o SortedKeys(keys \ {least})

\* the MiniSEED writer refuses a masked array
Writable(s) == \A i \in DOMAIN s : \A j \in DOMAIN s[i].data : s[i].data[j] # Masked

\* the year and the day of the year of the day-th day of the model
YYYY == 2012
FirstJulday == 92
YearOf(day) == YYYY
JuldayOf(day) == FirstJulday + day

\* f"{n:04d}", f"{n:03d}", strftime('%Y'), strftime('%j'): n in decimal
\* digits, padded with zeros to the width
Digits == <<"0", "1", "2", "3", "4", "5", "6", "7", "8", "9">>
RECURSIVE Pad(_, _)
Pad(n, width) ==
    IF width = 0 THEN <<>> ELSE Pad(n \div 10, width - 1) \o <<Digits[(n % 10) + 1]>>

\* the characters of a network code
NetChars(net) == IF net = Network THEN <<"N", "R">> ELSE <<>>

\* tr.stats.location: every trace of the model has the empty location
Location == <<>>

\* a tr.id that leaves the empty location out: one dot between station and
\* channel
SeedIdSingleDot(t) == NetChars(t.net) \o <<".">> \o t.sta \o <<".">> \o t.cha

\* tr.id: NET.STA.LOC.CHA
SeedId(t) == NetChars(t.net) \o <<".">> \o t.sta \o <<".">> \o Location \o <<".">> \o t.cha

\* the directory of a day file below sds_root, one entry per path component
sds_dir_for(t, year) ==
    <<Pad(year, 4), NetChars(t.net), t.sta, t.cha \o <<".", "D">>>>

sds_path_for(t, year, jday) ==
    Append(sds_dir_for(t, year),
           SeedId(t) \o <<".", "D", ".">> \o Pad(year, 4) \o <<".">> \o Pad(jday, 3))

\* lines 171-175: the first trace of the merged bin takes the codes of the key
WithKeyCodes(t, key) == [t EXCEPT !.net = key[1], !.sta = key[2], !.cha = key[3]]

\* out_path of the bin of key, whose merge gave the stream s
OutPath(key, s) ==
    sds_path_for(WithKeyCodes(s[1], key), YearOf(key[4]), JuldayOf(key[4]))

\* sds[path] = the stream written at path
Written(a, path, s) ==
    [k \in DOMAIN a \cup {path} |-> IF k = path THEN s ELSE a[k]]

InitBatch ==
    /\ SplitIdle /\ NormIdle /\ MergeIdle /\ StreamIdle
    /\ \E n \in 1..MaxFiles : \E c \in [1..n -> FileKinds] : files = Run(c, n)
    /\ fi = 1
    /\ sds = <<>>
    /\ bins = <<>>
    /\ wi = 0 /\ read_ok = 0 /\ wrote = 0
    /\ pc = "read"

\* read(str(f)) raises: the file is skipped
ReadFails ==
    /\ pc = "read"
    /\ fi <= Len(files)
    /\ ~files[fi].ok
    /\ fi' = fi + 1
    /\ UNCHANGED <<pc, files, sds, batchVars, streamVars, splitVars, normVars, mergeVars>>

\* lines 138-154 for one file
ReadFile ==
    /\ pc = "read"
    /\ fi <= Len(files)
    /\ files[fi].ok
    /\ read_ok' = read_ok + 1
    /\ fi' = fi + 1
    /\ IF Hangs(Prepared(files[fi]))
       THEN pc' = "hung" /\ bins' = bins
       ELSE pc' = pc /\ bins' = BinStream(bins, Prepared(files[fi]))
    /\ UNCHANGED <<files, sds, wi, wrote, streamVars, splitVars, normVars, mergeVars>>

\* the loop over the files is over
StartWriting ==
    /\ pc = "read"
    /\ fi > Len(files)
    /\ pc' = "write"
    /\ wi' = 1
    /\ UNCHANGED <<runVars, bins, read_ok, wrote, streamVars, splitVars, normVars, mergeVars>>

NextKey == SortedKeys(DOMAIN bins)[wi]

\* the merge of a bin raises twice: the exception leaves process
WriteRaises ==
    /\ pc = "write"
    /\ wi <= Cardinality(DOMAIN bins)
    /\ MergeBin(bins[NextKey]).status = "raised"
    /\ pc' = "aborted"
    /\ UNCHANGED <<runVars, batchVars, streamVars, splitVars, normVars, mergeVars>>

\* a bin is merged and written
WriteBin ==
    /\ pc = "write"
    /\ wi <= Cardinality(DOMAIN bins)
    /\ MergeBin(bins[NextKey]).status = "ok"
    /\ Writable(MergeBin(bins[NextKey]).traces)
    /\ bins' = [bins EXCEPT ![NextKey] = MergeBin(bins[NextKey]).traces]
    /\ sds' = Written(sds, OutPath(NextKey, MergeBin(bins[NextKey]).traces),
                       [MergeBin(bins[NextKey]).traces EXCEPT
                           ![1] = WithKeyCodes(@, NextKey)])
    /\ wrote' = wrote + 1
    /\ wi' = wi + 1
    /\ UNCHANGED <<pc, files, fi, read_ok, streamVars, splitVars, normVars, mergeVars>>

\* a bin is merged and st.write raises (a masked array, or an I/O error):
\* the error is printed and the loop goes on
WriteFails ==
    /\ pc = "write"
    /\ wi <= Cardinality(DOMAIN bins)
    /\ MergeBin(bins[NextKey]).status = "ok"
    /\ \/ ~Writable(MergeBin(bins[NextKey]).traces)
       \/ wi - 1 - wrote < MaxIoErrors
    /\ bins' = [bins EXCEPT ![NextKey] = MergeBin(bins[NextKey]).traces]
    /\ wi' = wi + 1
    /\ UNCHANGED <<pc, runVars, read_ok, wrote, streamVars, splitVars, normVars, mergeVars>>

\* print("[DONE] ...")
Finish ==
    /\ pc = "write"
    /\ wi > Cardinality(DOMAIN bins)
    /\ pc' = "done"
    /\ UNCHANGED <<runVars, batchVars, streamVars, splitVars, normVars, mergeVars>>

NextBatch ==
    ReadFails \/ ReadFile \/ StartWriting \/ WriteRaises \/ WriteBin \/ WriteFails \/ Finish

SpecBatch == InitBatch /\ [][NextBatch]_vars

-----------------------------------------------------------------------------
(* The main loop of 02_mseed2sds.py *)

\* lastday = None; dayetime before its first assignment
None == 0 - 1
Unset == 0 - 2

\* UTCDateTime.day, for the times of the model, which lie in April 2012
DayOfMonth(t) == (t \div Day) + 1

NonEmpty(t) == Npts(t) > 0

\* Stream.trim(starttime=t): t is moved to a sample of the first trace, every
\* trace is trimmed, the empty traces are removed
StreamTrimStart(s, t) ==
    IF s = <<>> THEN s
    ELSE LET snapped == s[1].start
                          + RoundAway(t - s[1].start, Period(s[1].sr)) * Period(s[1].sr)
         IN  SelectSeq([i \in DOMAIN s |-> Ltrim(s[i], snapped)], NonEmpty)

\* Stream.trim(endtime=t)
StreamTrimEnd(s, t) ==
    IF s = <<>> THEN s
    ELSE LET snapped == EndTime(s[1])
                          + RoundAway(t - EndTime(s[1]), Period(s[1].sr)) * Period(s[1].sr)
         IN  SelectSeq([i \in DOMAIN s |-> Rtrim(s[i], snapped)], NonEmpty)

\* write_day_to_SDS: every trace is written at the path of its own start
\* time, over what was there
\* lines 65-67: sdsfulldir and sdsfullpath below SDSdir
sdsfulldir(t) ==
    <<Pad(YearOf(DayIndex(t.start)), 4), NetChars(t.net), t.sta, t.cha \o <<".", "D">>>>

sdsfullpath(t) ==
    Append(sdsfulldir(t),
           SeedId(t) \o <<".", "D", ".">> \o Pad(YearOf(DayIndex(t.start)), 4)
               \o <<".">> \o Pad(JuldayOf(DayIndex(t.start)), 3))

RECURSIVE write_day_to_SDS(_, _)
write_day_to_SDS(a, s) ==
    IF s = <<>> THEN a
    ELSE write_day_to_SDS(Written(a, sdsfullpath(Head(s)), <<Head(s)>>), Tail(s))

\* lines 89-98 for the stream s of a file: the day of its first trace and,
\* when that trace ends on another day, the split at dayetime
Crossed(s) == DayOfMonth(s[1].start) # DayOfMonth(EndTime(s[1]))

\* the result of lines 94-97 once the first part was merged into dayst
SplitResult(m, s, etime) ==
    [status |-> IF m.status = "ok" THEN "ok" ELSE "MergeError",
     dayst |-> m.traces,
     st |-> StreamTrimStart(s, etime),
     currentday |-> DayOfMonth(EndTime(s[1]))]

AfterSplit(s, day_st, etime) ==
    IF s = <<>> THEN [status |-> "IndexError", dayst |-> day_st, st |-> s, currentday |-> None]
    ELSE IF ~Crossed(s)
    THEN [status |-> "ok", dayst |-> day_st, st |-> s,
          currentday |-> DayOfMonth(s[1].start)]
    ELSE IF etime = Unset
    THEN [status |-> "NameError", dayst |-> day_st, st |-> s, currentday |-> None]
    ELSE SplitResult(append_and_merge(day_st, StreamTrimEnd(s, etime)), s, etime)

\* lines 100-108: the stream starts a day that is not lastday; a2 is the
\* archive after the write of the day that ends
NewDay(r, last, etime, a2) ==
    IF r.st = <<>>
    THEN [status |-> "IndexError", dayst |-> r.st, lastday |-> last,
          dayetime |-> etime, sds |-> a2]
    ELSE [status |-> "ok", dayst |-> r.st, lastday |-> r.currentday,
          dayetime |-> DayStart(r.st[1].start) + Day, sds |-> a2]

\* lines 109-110: the stream is merged into the day that goes on
SameDay(m, last, etime, a) ==
    [status |-> IF m.status = "ok" THEN "ok" ELSE "MergeError",
     dayst |-> m.traces, lastday |-> last, dayetime |-> etime, sds |-> a]

\* lines 99-110 after the split r of lines 89-98
AfterDayCheck(r, last, etime, a) ==
    IF r.status # "ok"
    THEN [status |-> r.status, dayst |-> r.dayst, lastday |-> last,
          dayetime |-> etime, sds |-> a]
    ELSE IF r.currentday # last
    THEN NewDay(r, last, etime,
                IF Len(r.dayst) > 0 THEN write_day_to_SDS(a, r.dayst) ELSE a)
    ELSE SameDay(append_and_merge(r.dayst, r.st), last, etime, a)

\* lines 89-112 for one file that was read: the new values of the globals
\* and of the archive, and the exception that ends the script, if any
FileBody(f, day_st, last, etime, a) ==
    AfterDayCheck(AfterSplit(fix_seedid_legacy(f.traces), day_st, etime), last, etime, a)

InitStream ==
    /\ SplitIdle /\ NormIdle /\ MergeIdle /\ BatchIdle
    /\ \E n \in 1..MaxFiles : \E b \in 1..n : \E c \in [1..n -> FileKinds] :
          files = Run(c, b)
    /\ fi = 1
    /\ sds = <<>>
    /\ daydir = 0
    /\ dayst = <<>>
    /\ lastday = None
    /\ dayetime = Unset
    /\ pc = "loop"

\* the loop over the day directories comes to the next one
EnterDayDir ==
    /\ pc = "loop"
    /\ fi <= Len(files)
    /\ files[fi].dir # daydir
    /\ daydir' = files[fi].dir
    /\ dayst' = <<>>
    /\ lastday' = None
    /\ UNCHANGED <<pc, dayetime, runVars, batchVars, splitVars, normVars, mergeVars>>

\* obspy.read raises: the file is skipped
StreamReadFails ==
    /\ pc = "loop"
    /\ fi <= Len(files)
    /\ files[fi].dir = daydir
    /\ ~files[fi].ok
    /\ fi' = fi + 1
    /\ UNCHANGED <<pc, files, sds, streamVars, batchVars, splitVars, normVars, mergeVars>>

\* the body of the loop ends without an exception: its assignments
Completes(r) ==
    /\ r.status = "ok"
    /\ dayst' = r.dayst
    /\ lastday' = r.lastday
    /\ dayetime' = r.dayetime
    /\ sds' = r.sds

\* the body of the loop ends with an exception: what it had assigned
Raises(r) ==
    /\ r.status # "ok"
    /\ dayst' = r.dayst
    /\ sds' = r.sds

\* a file is read and goes through the body of the loop
StreamFile ==
    /\ pc = "loop"
    /\ fi <= Len(files)
    /\ files[fi].dir = daydir
    /\ files[fi].ok
    /\ Completes(FileBody(files[fi], dayst, lastday, dayetime, sds))
    /\ fi' = fi + 1
    /\ UNCHANGED <<pc, files, daydir, batchVars, splitVars, normVars, mergeVars>>

\* the body of the loop raises: nothing catches it, the script ends
StreamRaises ==
    /\ pc = "loop"
    /\ fi <= Len(files)
    /\ files[fi].dir = daydir
    /\ files[fi].ok
    /\ Raises(FileBody(files[fi], dayst, lastday, dayetime, sds))
    /\ pc' = "aborted"
    /\ UNCHANGED <<files, fi, daydir, lastday, dayetime, batchVars, splitVars, normVars, mergeVars>>

\* the loops are over: the script ends
StreamEnds ==
    /\ pc = "loop"
    /\ fi > Len(files)
    /\ pc' = "done"
    /\ UNCHANGED <<runVars, streamVars, batchVars, splitVars, normVars, mergeVars>>

NextStream == EnterDayDir \/ StreamReadFails \/ StreamFile \/ StreamRaises \/ StreamEnds

SpecStream == InitStream /\ [][NextStream]_vars

-----------------------------------------------------------------------------
(* Sequences of samples *)

RECURSIVE ConcatData(_)
ConcatData(ps) == IF ps = <<>> THEN <<>> ELSE Head(ps).data \o ConcatData(Tail(ps))

\* C1: when split_trace_at_midnights returns, its pieces taken in order hold
\* every sample of the input exactly once (disjoint, contiguous, union equal
\* to the input), and no piece reaches past the midnight that ends the day
\* of its first sample.
C1_SplitPartitions ==
    pc = "split_done" =>
        /\ ConcatData(parts) = tr.data
        /\ \A k \in 1..Len(parts) :
               EndTime(parts[k]) <= DayStart(parts[k].start) + Day

-----------------------------------------------------------------------------
(* fix_seedid *)

\* the canonical <<station, channel>> of the raw trace src in a result: a set
\* of one pair, or the empty set when the trace was dropped
Ident(out, src) ==
    { <<out[k].sta, out[k].cha>> : k \in { j \in DOMAIN out : out[j].data[1][1] = src } }

RECURSIVE Sources(_)
Sources(s) == IF s = <<>> THEN <<>> ELSE <<Head(s).data[1][1]>> \o Sources(Tail(s))

NotSentinel(t) == t.sta # IRIG

DropsExactlySentinels(out) ==
    /\ \A k \in DOMAIN out :
           /\ out[k].sta # IRIG
           /\ out[k].net = Network
           /\ WellFormed(out[k].cha)
    /\ Sources(out) = Sources(SelectSeq(st, NotSentinel))

\* C6: after either fix_seedid no trace with station IRIG remains, and every
\* other trace of the batch is in the result, in its place, with the network
\* set and a well-formed channel, wherever the sentinels stood in the batch.
C6_DropsExactlySentinels ==
    pc = "norm_done" => DropsExactlySentinels(outb) /\ DropsExactlySentinels(outl)

C6_Witness ==
    /\ pc = "norm_done"
    /\ Len(st) = 3
    /\ st[1].sta = IRIG /\ st[2].sta = IRIG /\ st[3].sta # IRIG
    /\ Len(outl) = 1 /\ Len(outb) = 1

\* C7: a trace of a batch gets the same canonical station and channel, or is
\* dropped, in whatever order the batch is handed to fix_seedid; stated of
\* both fix_seedid.
C7_OrderIndependent ==
    pc = "norm_done" =>
        \A i \in DOMAIN st :
            /\ Ident(outb, i) = Ident(outb2, i)
            /\ Ident(outl, i) = Ident(outl2, i)

\* more than one station code of the batch, the sentinel's apart, has this
\* root
SiblingsShare(batch, root3) ==
    Cardinality({ batch[j].sta : j \in { k \in DOMAIN batch :
                    batch[k].sta # IRIG /\ StartsWith(batch[k].sta, root3) } }) > 1

ZneRule(out) ==
    \A i \in DOMAIN st :
        (st[i].sta # IRIG /\ SiblingsShare(st, Root3(st[i].sta))) =>
            /\ LastChar(st[i].sta) \in ZNE =>
                   Ident(out, i) = { <<Root3(st[i].sta), <<"E", "H", LastChar(st[i].sta)>>>> }
            /\ LastChar(st[i].sta) \notin (ZNE \cup {"L", "H"}) =>
                   Ident(out, i) =
                       { <<st[i].sta, IF WellFormed(st[i].cha) THEN st[i].cha ELSE EHZ>> }

\* C8: where several station codes share a root, a code ending in Z, N or E
\* becomes (root3, "EH" + letter), and a sibling ending in none of them (and
\* in no gain marker) keeps its station code and gets EHZ only if its own
\* channel is not well-formed; stated of both fix_seedid.
C8_ZneRule ==
    pc = "norm_done" => ZneRule(outb) /\ ZneRule(outl)

-----------------------------------------------------------------------------
(* Merging the two fragments of a bucket *)

MergeDone == pc = "merge" /\ resb # <<>> /\ resl # <<>>

NoFill(data) == \A i \in DOMAIN data : data[i] # Masked /\ data[i] # Zero

\* C9: two fragments of a bucket at 99.9997 Hz and 100.0 Hz, the second
\* starting one sample after the first ends, are brought to 100.0 Hz by the
\* reconciler of process and merge into one series without a gap and
\* without an error.
C9_ReconcilesJitter ==
    ( /\ MergeDone
      /\ {bucket[1].sr, bucket[2].sr} = {SR99_9997, SR100}
      /\ bucket[2].start = EndTime(bucket[1]) + Period(bucket[1].sr) )
    => /\ resb.status = "ok"
       /\ Len(resb.traces) = 1
       /\ resb.traces[1].sr = SR100
       /\ resb.traces[1].data = bucket[1].data \o bucket[2].data
       /\ NoFill(resb.traces[1].data)

\* the second fragment starts after the first starts and before it ends
Overlapping(a, b) == a.sr = b.sr /\ a.start < b.start /\ b.start <= EndTime(a)

Max(x, y) == IF x > y THEN x ELSE y

FirstWins(res, a, b) ==
    /\ res.status = "ok"
    /\ Len(res.traces) = 1
    /\ res.traces[1].start = a.start
    /\ \E k \in 0..Npts(b) :
           res.traces[1].data = a.data \o SubSeq(b.data, k + 1, Npts(b))

Spans(res, e, l) ==
    /\ res.status = "ok"
    /\ Len(res.traces) = 1
    /\ res.traces[1].start = e.start
    /\ 2 * Abs(EndTime(res.traces[1]) - Max(EndTime(e), EndTime(l))) <= Period(e.sr)

\* method=1: the later-starting l replaces the overlapped samples of e,
\* unless l ends within e and is dropped whole
LaterWins(res, e, l) ==
    /\ Spans(res, e, l)
    /\ IF EndTime(l) > EndTime(e)
       THEN \E k \in 0..(Npts(e) - 1) :
                res.traces[1].data = SubSeq(e.data, 1, k) \o l.data
       ELSE res.traces[1].data = e.data

\* method=0, fill_value=0: the overlapped samples are 0
ZeroedOverlap(res, e, l) ==
    /\ Spans(res, e, l)
    /\ IF EndTime(l) > EndTime(e)
       THEN \E k \in 0..(Npts(e) - 1) :
                res.traces[1].data =
                    SubSeq(e.data, 1, k) \o Chunk(Npts(e) - k, Zero)
                        \o SubSeq(l.data, Npts(e) - k + 1, Npts(l))
       ELSE \E k \in 0..(Npts(e) - 1) :
                res.traces[1].data =
                    SubSeq(e.data, 1, k) \o Chunk(Npts(l), Zero)
                        \o SubSeq(e.data, k + Npts(l) + 1, Npts(e))

-----------------------------------------------------------------------------
(* The day window of a bucket *)

\* the trace lies in [day_start, day_start + 86400 s) of the day-th day
InWindow(t, day) == day * Day <= t.start /\ EndTime(t) < (day + 1) * Day

\* C2: every fragment held in a bucket (a bins[key] stream of process, or the
\* dayst accumulator of 02_mseed2sds.py) starts and ends inside the half-open
\* day window of that bucket, so that no sample of the adjacent day (the one
\* at 00:00:00 of the next day, a later trace of a multi-trace file) is held
\* in it.
C2_BucketsInWindow ==
    /\ \A key \in DOMAIN bins :
          \A i \in DOMAIN bins[key] : InWindow(bins[key][i], key[4])
    /\ dayetime # Unset =>
          \A i \in DOMAIN dayst : InWindow(dayst[i], DayIndex(dayetime) - 1)

-----------------------------------------------------------------------------
(* What a run leaves in the archive *)

\* the archive a holds a sample of station sta at time t
Holds(a, sta, t) ==
    \E key \in DOMAIN a : \E i \in DOMAIN a[key] :
        /\ a[key][i].sta = sta
        /\ \E j \in 1..Npts(a[key][i]) : SampleTime(a[key][i], j) = t

\* the sample times of the non-sentinel traces of the files that were read
ReadSamples ==
    { <<files[k].traces[i].sta, SampleTime(files[k].traces[i], j)>> :
        <<k, i, j>> \in { x \in (1..MaxFiles) \X (1..2) \X (1..MaxNpts) :
                            /\ x[1] \in DOMAIN files
                            /\ files[x[1]].ok
                            /\ x[2] \in DOMAIN files[x[1]].traces
                            /\ files[x[1]].traces[x[2]].sta # IRIG
                            /\ x[3] <= Npts(files[x[1]].traces[x[2]]) } }

\* C3: when the streaming run ends without a merge or write error, every
\* sample of a non-sentinel trace that was read is in some written day file;
\* the last day accumulated in dayst for each day directory is written.
C3_EverySampleWritten ==
    pc = "done" => \A x \in ReadSamples : Holds(sds, x[1], x[2])

\* the sample times of one written file
TimesOf(s) ==
    { <<s[i].sta, SampleTime(s[i], j)>> :
        <<i, j>> \in { x \in (1..MaxBatch) \X (1..(MaxFiles * MaxNpts)) :
                          x[1] \in DOMAIN s /\ x[2] <= Npts(s[x[1]]) } }

\* C4: in the streaming run a day file that is written again (a late
\* fragment of a day that was already written) still holds what it held
\* before the rewrite, together with the late fragment.
C4_RewriteKeepsEarlier ==
    [][\A key \in DOMAIN sds :
          /\ key \in DOMAIN sds'
          /\ TimesOf(sds[key]) \subseteq TimesOf(sds'[key])]_vars

\* C5: no error in one file or one bucket ends the run: a bucket whose merge
\* fails after the reconcile-and-retry step is not written, the other
\* buckets still are, and process reaches its final summary.
C5_RunNeverAborts == pc # "aborted"

-----------------------------------------------------------------------------
(* Gaps between the fragments of a bucket *)

\* the fragments of s leave a positive time gap: after some fragment comes a
\* sample instant that no fragment covers, and a later fragment
GapIn(s) ==
    \E i \in DOMAIN s :
        LET next == EndTime(s[i]) + Period(s[i].sr)
        IN  /\ \E j \in DOMAIN s : s[j].start > next
            /\ ~\E j \in DOMAIN s : s[j].start <= next /\ next <= EndTime(s[j])

\* the bin that the write loop of process comes to, and its merge
AtBin == pc = "write" /\ wi <= Cardinality(DOMAIN bins)
MergedBin == MergeBin(bins[NextKey])

\* C11: a bucket whose fragments leave a positive time gap is merged into a
\* series that keeps the gap as a no-data region, with no zero sample put in
\* for it, and the bucket is still written to its day file.
C11_GapKeptAndWritten ==
    (AtBin /\ GapIn(bins[NextKey]) /\ MergedBin.status = "ok") =>
        /\ \A i \in DOMAIN MergedBin.traces :
              \A j \in DOMAIN MergedBin.traces[i].data :
                  MergedBin.traces[i].data[j] # Zero
        /\ Writable(MergedBin.traces)

-----------------------------------------------------------------------------
(* The archive path *)

\* <year>/<network>/<station>/<channel>.D/
\*     <network>.<station>.<location>.<channel>.D.<year>.<day_of_year>
\* below the root, for codes given as characters
CanonicalPath(net, sta, loc, cha, year, doy) ==
    <<Pad(year, 4), net, sta, cha \o <<".", "D">>,
      net \o <<".">> \o sta \o <<".">> \o loc \o <<".">> \o cha \o <<".", "D", ".">>
          \o Pad(year, 4) \o <<".">> \o Pad(doy, 3)>>

\* the canonical path of the bucket of a bins key
PathOfKey(key) ==
    CanonicalPath(NetChars(key[1]), key[2], Location, key[3],
                  YearOf(key[4]), JuldayOf(key[4]))

\* every file of the archive lies at the canonical path of the identity and
\* the start day of every trace in it
PathsCanonical ==
    \A p \in DOMAIN sds : \A i \in DOMAIN sds[p] :
        p = PathOfKey(KeyOf(sds[p][i]))

\* the bins that the write loop of process has passed
Passed == { SortedKeys(DOMAIN bins)[n] : n \in 1..(wi - 1) }

-----------------------------------------------------------------------------
(* The low-gain rule of fix_seedid *)

\* the orientation the earlier rules leave to a station code that ends in
\* none of Z, N, E: that of its channel, Z when the channel is not well-formed
Orientation(cha) == IF WellFormed(cha) THEN cha[3] ELSE "Z"

LowGainRule(out) ==
    \A i \in DOMAIN st :
        (/\ Len(st[i].sta) = 4
         /\ LastChar(st[i].sta) = "L"
         /\ SiblingsShare(st, Root3(st[i].sta))) =>
            Ident(out, i) =
                { <<Root3(st[i].sta), <<"E", "L", Orientation(st[i].cha)>>>> }

\* C13: a raw station code of 4 characters ending in L, with more than one
\* sibling code on its 3-character root, becomes station root3 and channel
\* "EL" + the orientation of its own channel (ELN for EHN), Z only when that
\* channel is not well-formed; stated of both fix_seedid.
C13_LowGainRule ==
    pc = "norm_done" => LowGainRule(outb) /\ LowGainRule(outl)

-----------------------------------------------------------------------------
(* The cut instant of the day-boundary split *)

\* the loop of 02_mseed2sds.py is about to run its body on a file that was
\* read, and the stream that fix_seedid leaves of it
AtFile == pc = "loop" /\ fi <= Len(files) /\ files[fi].dir = daydir /\ files[fi].ok
FixedFile == fix_seedid_legacy(files[fi].traces)

\* C14: whenever the day-boundary split of 02_mseed2sds.py runs (the first
\* trace of the file starts and ends on different days), dayetime is defined
\* and is the midnight that follows the start of that trace, also for the
\* first file of the run and the first file of a day directory.
C14_CutAtNextMidnight ==
    (AtFile /\ FixedFile # <<>> /\ Crossed(FixedFile)) =>
        /\ dayetime # Unset
        /\ dayetime = DayStart(FixedFile[1].start) + Day

=============================================================================
